---- MODULE Spec2Model ----
(***************************************************************************)
(* A model of the gobdd step-matching and execution engine                 *)
(* (anuragh27crony/gobdd): the step registry and its lookup, the tag-based *)
(* skip rule, and the feature / scenario / step executor with its hooks,   *)
(* the host test runner's sub-units (testing.T) and the outcome records of *)
(* the cucumber report.                                                    *)
(*                                                                         *)
(* Texts are sequences of one-character strings.  A pattern is a sequence  *)
(* of tokens: a one-character literal, or one of three capture groups:     *)
(* any characters, one digit, one or more digits.  Matching follows the    *)
(* regexp package of Go: unanchored, leftmost-first, greedy repetition.    *)
(***************************************************************************)
EXTENDS Integers, Sequences, FiniteSets, TLC

VARIABLES
    steps,              \* Suite.steps: the registered step definitions
    options,            \* Suite.options: tags, ignoreTags and the four hook lists
    pc,                 \* where Suite.runFeature stands
    nChildren,          \* number of feature.Children consumed so far
    bkgSteps,           \* runFeature's bkgSteps
    report,             \* formattedFeature.Elements
    featFailed,         \* Failed() of the feature's sub-unit
    scenario,           \* the scenario runScenario is working on
    phase,              \* runScenario: "idle", "bkg", "steps" or "unwound"
    idx,                \* runSteps: number of steps of the current list already run
    acc,                \* runSteps: the Steps of its local formattedscenario
    scenFailed,         \* Failed() of the scenario's sub-unit
    events,             \* history: what was invoked for the scenario handled last
    executed,           \* history: the steps of the feature whose handler was called
    probe,              \* the most recent lookup made on the suite from outside a run
    parameterTypes,     \* Suite.parameterTypes
    hasStepErrors,      \* Suite.hasStepErrors
    suiteFailed,        \* Failed() of Suite.t, the reporting handle of the suite
    ctx,                \* the context runFeature makes for the scenario
    c,                  \* runScenario: the clone the scenario's own steps run on
    todo,               \* runSteps: the steps it loops over
    observed,           \* history: the keys each handler of the scenario found set
    files,              \* Run: the feature files found
    nextFile,           \* Run: number of files handled so far
    features            \* Run: what executeFeature returned, file after file

vars == <<steps, options, pc, nChildren, bkgSteps, report, featFailed, scenario,
          phase, idx, acc, scenFailed, events, executed, probe,
          parameterTypes, hasStepErrors, suiteFailed, ctx, c, todo, observed,
          files, nextFile, features>>

\* The variables of Run's loop over the files.
runVars == <<files, nextFile, features>>

\* runFeature's bkgSteps before a Background child is seen (the nil pointer),
\* and the scenario variable of the model before any scenario is handled.
NilBackground == [isNil |-> TRUE, steps |-> <<>>]
NoScenario == [id |-> 0, tags |-> <<>>, steps |-> <<>>, examples |-> <<>>]

(***************************************************************************)
(* Bounds of the model.                                                    *)
(***************************************************************************)
MaxDefs == 2            \* registered definitions in a probed registry
MaxTextLen == 3         \* characters of a probed step text
MaxTags == 2            \* entries of a probed tag list
MaxChildren == 2        \* children of the feature
MaxSteps == 2           \* steps of a scenario
MaxBkgSteps == 2        \* steps of the background
NumHooks == 2           \* hooks configured in each of the four hook lists

(***************************************************************************)
(* Regular expressions (Go's regexp, for the dialect used here).           *)
(***************************************************************************)
Star == "(.*)"
Digit == "(\\d)"
DigitPlus == "(\\d+)"
Groups == {Star, Digit, DigitPlus}

IsDigit(ch) == ch \in {"0", "1", "2", "3", "4", "5", "6", "7", "8", "9"}

\* Number of leading digits of text t from offset i (0-based).
RECURSIVE DigitRun(_, _)
DigitRun(t, i) ==
    IF i < Len(t) /\ IsDigit(t[i + 1]) THEN 1 + DigitRun(t, i + 1) ELSE 0

\* End offset of the preferred match of the tokens p[k..] anchored at offset i
\* of t, or -1: literals and \d consume one character, the greedy groups try
\* the longest repetition first and back off.
RECURSIVE MatchFrom(_, _, _, _), TryDown(_, _, _, _, _)
MatchFrom(p, k, t, i) ==
    IF k > Len(p) THEN i
    ELSE IF p[k] = Star THEN TryDown(p, k, t, Len(t), i)
    ELSE IF p[k] = DigitPlus THEN TryDown(p, k, t, i + DigitRun(t, i), i + 1)
    ELSE IF p[k] = Digit THEN
        IF i < Len(t) /\ IsDigit(t[i + 1]) THEN MatchFrom(p, k + 1, t, i + 1) ELSE -1
    ELSE
        IF i < Len(t) /\ t[i + 1] = p[k] THEN MatchFrom(p, k + 1, t, i + 1) ELSE -1

TryDown(p, k, t, j, lo) ==
    IF j < lo THEN -1
    ELSE LET r == MatchFrom(p, k + 1, t, j)
         IN  IF r # -1 THEN r ELSE TryDown(p, k, t, j - 1, lo)

\* Regexp.doExecute: the leftmost match starting at or after pos, as
\* <<start, end>>, or <<>>.
RECURSIVE doExecute(_, _, _)
doExecute(p, t, pos) ==
    IF pos > Len(t) THEN <<>>
    ELSE LET e == MatchFrom(p, 1, t, pos)
         IN  IF e # -1 THEN <<pos, e>> ELSE doExecute(p, t, pos + 1)

MatchString(p, t) == doExecute(p, t, 0) # <<>>

\* Regexp.allMatches: the number of matches it delivers (i), for at most n.
RECURSIVE allMatches(_, _, _, _, _, _)
allMatches(p, t, n, pos, i, prevMatchEnd) ==
    IF ~(i < n /\ pos <= Len(t)) THEN i
    ELSE LET matches == doExecute(p, t, pos)
         IN  IF matches = <<>> THEN i
             ELSE LET empty == matches[2] = pos
                      accept == ~(empty /\ matches[1] = prevMatchEnd)
                      width == IF pos < Len(t) THEN 1 ELSE 0
                      npos == IF empty
                              THEN (IF width > 0 THEN pos + width ELSE Len(t) + 1)
                              ELSE matches[2]
                  IN  allMatches(p, t, n, npos, IF accept THEN i + 1 ELSE i, matches[2])

\* len(expr.FindAll([]byte(text), -1))
FindAllCount(p, t) == allMatches(p, t, Len(t) + 1, 0, 0, -1)

\* Regexp.NumSubexp: every group token is one capture.
NumSubexp(p) == Cardinality({k \in 1..Len(p) : p[k] \in Groups})

(***************************************************************************)
(* Step registry lookup.                                                   *)
(***************************************************************************)
NoDef == [index |-> 0, found |-> 0]

\* The loop of findStepDef over s.steps[k..], carrying sd (as the index of the
\* chosen definition, 0 for the zero stepDef) and found.
RECURSIVE findLoop(_, _, _, _)
findLoop(reg, text, k, sd) ==
    IF k > Len(reg) THEN sd
    ELSE IF ~MatchString(reg[k].expr, text) THEN findLoop(reg, text, k + 1, sd)
    ELSE LET l == FindAllCount(reg[k].expr, text)
         IN  IF l > sd.found
             THEN findLoop(reg, text, k + 1, [index |-> k, found |-> l])
             ELSE findLoop(reg, text, k + 1, sd)

\* Mutants of the loop: one takes the first matching definition whatever its
\* count, one lets a later definition win a tie.
RECURSIVE findLoopFirst(_, _, _, _)
findLoopFirst(reg, text, k, sd) ==
    IF k > Len(reg) THEN sd
    ELSE IF ~MatchString(reg[k].expr, text) THEN findLoopFirst(reg, text, k + 1, sd)
    ELSE [index |-> k, found |-> FindAllCount(reg[k].expr, text)]

RECURSIVE findLoopTie(_, _, _, _)
findLoopTie(reg, text, k, sd) ==
    IF k > Len(reg) THEN sd
    ELSE IF ~MatchString(reg[k].expr, text) THEN findLoopTie(reg, text, k + 1, sd)
    ELSE LET l == FindAllCount(reg[k].expr, text)
         IN  IF l >= sd.found
             THEN findLoopTie(reg, text, k + 1, [index |-> k, found |-> l])
             ELSE findLoopTie(reg, text, k + 1, sd)

findStepDefFirst(reg, text) ==
    LET sd == findLoopFirst(reg, text, 1, NoDef)
    IN  [def |-> sd.index, err |-> sd.index = 0]

findStepDefTie(reg, text) ==
    LET sd == findLoopTie(reg, text, 1, NoDef)
    IN  [def |-> sd.index, err |-> sd.index = 0]

\* Suite.findStepDef: def is the index in the registry of the definition
\* returned, err tells whether the not-found error is returned (sd is then
\* still the zero stepDef).
findStepDef(reg, text) ==
    LET sd == findLoop(reg, text, 1, NoDef)
    IN  [def |-> sd.index, err |-> sd.index = 0]

(***************************************************************************)
(* Tag-based skip rule.                                                    *)
(***************************************************************************)
\* contains tells whether a contains x.
RECURSIVE contains(_, _)
contains(a, x) ==
    IF a = <<>> THEN FALSE
    ELSE IF x = Head(a) THEN TRUE ELSE contains(Tail(a), x)

\* The first tag (its index) of scenarioTags from k on that list holds, or 0.
RECURSIVE firstIn(_, _, _)
firstIn(scenarioTags, list, k) ==
    IF k > Len(scenarioTags) THEN 0
    ELSE IF contains(list, scenarioTags[k]) THEN k
    ELSE firstIn(scenarioTags, list, k + 1)

\* Mutant: the allow-list is consulted before the ignore list.
skipScenarioAllowFirst(opts, scenarioTags) ==
    IF Len(opts.tags) # 0 /\ firstIn(scenarioTags, opts.tags, 1) # 0 THEN FALSE
    ELSE IF firstIn(scenarioTags, opts.ignoreTags, 1) # 0 THEN TRUE
    ELSE Len(opts.tags) # 0

\* Suite.skipScenario
skipScenario(opts, scenarioTags) ==
    IF firstIn(scenarioTags, opts.ignoreTags, 1) # 0 THEN TRUE
    ELSE IF Len(opts.tags) = 0 THEN FALSE
    ELSE IF firstIn(scenarioTags, opts.tags, 1) # 0 THEN FALSE
    ELSE TRUE

(***************************************************************************)
(* Strings (sequences of characters) and the conversions of strconv.       *)
(***************************************************************************)
\* s[i..] begins with sub.
HasPrefixAt(s, i, sub) ==
    /\ i + Len(sub) - 1 <= Len(s)
    /\ \A k \in 1..Len(sub) : s[i + k - 1] = sub[k]

\* strings.Contains
stringsContains(s, sub) == \E i \in 1..(Len(s) + 1) : HasPrefixAt(s, i, sub)

\* strings.Replace(s, old, new, -1) for a non-empty old: the occurrences are
\* taken from the left and do not overlap.
RECURSIVE replaceFrom(_, _, _, _)
replaceFrom(s, old, new, i) ==
    IF i > Len(s) THEN <<>>
    ELSE IF HasPrefixAt(s, i, old) THEN new \o replaceFrom(s, old, new, i + Len(old))
    ELSE <<s[i]>> \o replaceFrom(s, old, new, i + 1)

stringsReplace(s, old, new) == replaceFrom(s, old, new, 1)

\* An integer is kept as its sign and the decimal digits of its magnitude
\* (without leading zeros), so that the limits of the 64-bit int are exact.
Zero == [neg |-> FALSE, mag |-> <<"0">>]
MaxInt == [neg |-> FALSE,
           mag |-> <<"9", "2", "2", "3", "3", "7", "2", "0", "3", "6", "8", "5", "4",
                     "7", "7", "5", "8", "0", "7">>]
MinInt == [neg |-> TRUE,
           mag |-> <<"9", "2", "2", "3", "3", "7", "2", "0", "3", "6", "8", "5", "4",
                     "7", "7", "5", "8", "0", "8">>]

DigitValue(ch) ==
    CASE ch = "0" -> 0 [] ch = "1" -> 1 [] ch = "2" -> 2 [] ch = "3" -> 3
      [] ch = "4" -> 4 [] ch = "5" -> 5 [] ch = "6" -> 6 [] ch = "7" -> 7
      [] ch = "8" -> 8 [] ch = "9" -> 9

\* The digits without their leading zeros.
RECURSIVE stripZeros(_)
stripZeros(ds) ==
    IF Len(ds) > 1 /\ ds[1] = "0" THEN stripZeros(Tail(ds)) ELSE ds

\* a < b, for magnitudes without leading zeros.
RECURSIVE magLessFrom(_, _, _)
magLessFrom(a, b, k) ==
    IF k > Len(a) THEN FALSE
    ELSE IF a[k] # b[k] THEN DigitValue(a[k]) < DigitValue(b[k])
    ELSE magLessFrom(a, b, k + 1)

magLess(a, b) ==
    IF Len(a) # Len(b) THEN Len(a) < Len(b) ELSE magLessFrom(a, b, 1)

\* strconv.Atoi: the value and whether an error is returned.  A text that is
\* not an optional sign followed by digits gives 0 and a syntax error; a
\* magnitude the int cannot hold gives the nearest limit and a range error.
Atoi(s) ==
    LET signed == Len(s) > 0 /\ s[1] \in {"+", "-"}
        neg == Len(s) > 0 /\ s[1] = "-"
        ds == IF signed THEN Tail(s) ELSE s
        wellFormed == Len(ds) > 0 /\ \A k \in 1..Len(ds) : IsDigit(ds[k])
        mag == stripZeros(ds)
    IN  IF ~wellFormed THEN [value |-> Zero, err |-> TRUE]
        ELSE IF ~neg /\ magLess(MaxInt.mag, mag) THEN [value |-> MaxInt, err |-> TRUE]
        ELSE IF neg /\ magLess(MinInt.mag, mag) THEN [value |-> MinInt, err |-> TRUE]
        ELSE [value |-> [neg |-> neg /\ mag # <<"0">>, mag |-> mag], err |-> FALSE]

\* strconv.ParseFloat(s, 32) returns no error, for the decimal form without
\* exponent: an optional sign, digits with at most one point, one digit at
\* least.
ParseFloatOK(s) ==
    LET signed == Len(s) > 0 /\ s[1] \in {"+", "-"}
        body == IF signed THEN Tail(s) ELSE s
        points == {k \in 1..Len(body) : body[k] = "."}
    IN  /\ \A k \in 1..Len(body) : IsDigit(body[k]) \/ body[k] = "."
        /\ Cardinality(points) <= 1
        /\ \E k \in 1..Len(body) : IsDigit(body[k])

(***************************************************************************)
(* Patterns as they are written (source text), their compilation, and the  *)
(* registration of step definitions.                                       *)
(***************************************************************************)
\* The source text of the capture groups of the dialect.
StarSrc ==
    <<"(", ".", "*", ")">>
DigitSrc ==
    <<"(", "\\", "d", ")">>
DigitPlusSrc ==
    <<"(", "\\", "d", "+", ")">>

\* The group getRegexpForVar returns for a float.
FloatVarSrc ==
    <<"(", "[", "+", "-", "]", "?", "(", "[", "0", "-", "9", "]", "*",
    "[", ".", "]", ")", "?", "[", "0", "-", "9", "]", "+", ")">>

\* The tokens of the built-in parameter types and their fragments (NewSuite).
IntToken ==
    <<"{", "i", "n", "t", "}">>
FloatToken ==
    <<"{", "f", "l", "o", "a", "t", "}">>
WordToken ==
    <<"{", "w", "o", "r", "d", "}">>
TextToken ==
    <<"{", "t", "e", "x", "t", "}">>
FloatFragment ==
    <<"(", "[", "-", "+", "]", "?", "\\", "d", "*", "\\", ".", "?", "\\",
    "d", "*", ")">>
WordFragment ==
    <<"(", "[", "\\", "d", "\\", "w", "]", "+", ")">>
TextFragmentDouble ==
    <<"\"", "(", "[", "\\", "d", "\\", "w", "\\", "-", "\\", "s", "]",
    "+", ")", "\"">>
TextFragmentSingle ==
    <<"'", "(", "[", "\\", "d", "\\", "w", "\\", "-", "\\", "s", "]", "+",
    ")", "'">>

\* regexp.Compile: the tokens of the pattern and whether an error is returned.
\* An error is a closing parenthesis without an opening one, a group that is
\* not closed, or a backslash at the end.  A backslash before a punctuation
\* character gives that character as a literal.  (Other errors of the syntax
\* do not occur in the patterns used here.)
Punctuation == {"{", "}", "(", ")", "[", "]", "\\", ".", "*", "+", "?", "-"}

Emit(tok, rest) == [err |-> rest.err, prog |-> <<tok>> \o rest.prog]

RECURSIVE compileFrom(_, _, _)
compileFrom(src, i, depth) ==
    IF i > Len(src) THEN [err |-> depth # 0, prog |-> <<>>]
    ELSE IF HasPrefixAt(src, i, DigitPlusSrc)
         THEN Emit(DigitPlus, compileFrom(src, i + Len(DigitPlusSrc), depth))
    ELSE IF HasPrefixAt(src, i, DigitSrc)
         THEN Emit(Digit, compileFrom(src, i + Len(DigitSrc), depth))
    ELSE IF HasPrefixAt(src, i, StarSrc)
         THEN Emit(Star, compileFrom(src, i + Len(StarSrc), depth))
    ELSE IF src[i] = "\\"
         THEN IF i = Len(src) THEN [err |-> TRUE, prog |-> <<>>]
              ELSE Emit(IF src[i + 1] \in Punctuation THEN src[i + 1]
                        ELSE "\\" \o src[i + 1],
                        compileFrom(src, i + 2, depth))
    ELSE IF src[i] = "(" THEN Emit("(", compileFrom(src, i + 1, depth + 1))
    ELSE IF src[i] = ")"
         THEN IF depth = 0 THEN [err |-> TRUE, prog |-> <<>>]
              ELSE Emit(")", compileFrom(src, i + 1, depth - 1))
    ELSE Emit(src[i], compileFrom(src, i + 1, depth))

Compile(src) == compileFrom(src, 1, 0)

\* getRegexpForVar
getRegexpForVar(v) ==
    IF ~Atoi(v).err THEN DigitPlusSrc
    ELSE IF ParseFloatOK(v) THEN FloatVarSrc
    ELSE StarSrc

\* Suite.parameterTypes as NewSuite leaves it: token -> list of fragments.
Map1(k, v) == [x \in {k} |-> v]
Merge(f, g) == [x \in (DOMAIN f) \cup (DOMAIN g) |-> IF x \in DOMAIN f THEN f[x] ELSE g[x]]

\* Suite.AddParameterTypes, for fragments that compile.
AddParameterTypes(pt, from, to) ==
    Merge(Map1(from, (IF from \in DOMAIN pt THEN pt[from] ELSE <<>>) \o to), pt)

BuiltinParameterTypes ==
    AddParameterTypes(
        AddParameterTypes(
            AddParameterTypes(
                AddParameterTypes(<<>>, IntToken, <<DigitSrc>>),
                FloatToken, <<FloatFragment>>),
            WordToken, <<WordFragment>>),
        TextToken, <<TextFragmentDouble, TextFragmentSingle>>)

\* The orders in which the loop of applyParameterTypes can meet the tokens
\* that occur in expr (the iteration order of a Go map is not fixed; a token
\* that does not occur in expr adds nothing).
KeyOrders(pt, expr) ==
    LET present == {from \in DOMAIN pt : stringsContains(expr, from)}
    IN  {o \in [1..Cardinality(present) -> present] :
            \A i, j \in 1..Cardinality(present) : i # j => o[i] # o[j]}

RECURSIVE applyLoop(_, _, _, _)
applyLoop(pt, expr, order, i) ==
    IF i > Len(order) THEN <<>>
    ELSE [k \in 1..Len(pt[order[i]]) |-> stringsReplace(expr, order[i], pt[order[i]][k])]
         \o applyLoop(pt, expr, order, i + 1)

\* Suite.applyParameterTypes, the map being iterated in the given order.
applyParameterTypes(pt, expr, order) == <<expr>> \o applyLoop(pt, expr, order, 1)

\* validateStepFunc accepts the handler: it takes the reporting handle and
\* the context, then the captures.
validateStepFunc(step) == step.numIn >= 2

\* The loop of AddStep over the candidate patterns, from i on.  s holds the
\* fields of the suite AddStep works on: steps, hasStepErrors, and tFailed
\* for Failed() of the suite's reporting handle (set by t.Errorf).
RECURSIVE addLoop(_, _, _, _)
addLoop(s, exprs, step, i) ==
    IF i > Len(exprs) THEN s
    ELSE LET compiled == Compile(exprs[i])
         IN  IF compiled.err
             THEN [s EXCEPT !.hasStepErrors = TRUE, !.tFailed = TRUE]
             ELSE addLoop([s EXCEPT !.steps = Append(@, [expr |-> compiled.prog,
                                                           f |-> step])],
                          exprs, step, i + 1)

\* Suite.AddStep
AddStep(s, pt, expr, step, order) ==
    IF ~validateStepFunc(step)
    THEN [s EXCEPT !.hasStepErrors = TRUE, !.tFailed = TRUE]
    ELSE addLoop(s, applyParameterTypes(pt, expr, order), step, 1)

\* Suite.AddRegexStep: the pattern is handed in compiled.
AddRegexStep(s, expr, step) ==
    IF ~validateStepFunc(step)
    THEN [s EXCEPT !.hasStepErrors = TRUE, !.tFailed = TRUE]
    ELSE [s EXCEPT !.steps = Append(@, [expr |-> expr, f |-> step])]

(***************************************************************************)
(* Scenario outlines.  An example table is a header (the placeholder       *)
(* names) and body rows of cell values; s holds the fields of the suite    *)
(* that AddStep works on.                                                  *)
(***************************************************************************)
\* The value of an expression that is bound to a name once and used several
\* times is written The({e(x) : x \in {value}}).
The(S) == CHOOSE x \in S : TRUE

\* stepFromExample, the loop over the placeholders from i on.
RECURSIVE stepFromExampleLoop(_, _, _, _, _)
stepFromExampleLoop(stepName, expr, row, placeholders, i) ==
    IF i > Len(placeholders) THEN [text |-> stepName, expr |-> expr]
    ELSE stepFromExampleLoop(stringsReplace(stepName, placeholders[i], row[i]),
                             stringsReplace(expr, placeholders[i], getRegexpForVar(row[i])),
                             row, placeholders, i + 1)

stepFromExample(stepName, row, placeholders) ==
    stepFromExampleLoop(stepName, stepName, row, placeholders, 1)

\* stepsFromExamples, the loop over the body rows from r on.  A row whose
\* text has no definition is passed over; for any other the derived pattern
\* is registered for the handler found.  (The texts of the outlines used here
\* contain no parameter-type token, so AddStep meets the tokens in one order
\* only.)
RECURSIVE rowsLoop(_, _, _, _, _, _, _)
rowsLoop(s, pt, sourceStep, example, placeholdersValues, r, out) ==
    IF r > Len(example.body) THEN [s |-> s, steps |-> out]
    ELSE The({ The({
           IF d.err
           THEN rowsLoop(s, pt, sourceStep, example, placeholdersValues, r + 1, out)
           ELSE rowsLoop(AddStep(s, pt, se.expr, s.steps[d.def].f,
                                 CHOOSE o \in KeyOrders(pt, se.expr) : TRUE),
                         pt, sourceStep, example, placeholdersValues, r + 1,
                         Append(out, [text |-> se.text, line |-> sourceStep.line]))
           : d \in {findStepDef(s.steps, se.text)} })
           : se \in {stepFromExample(sourceStep.text, example.body[r],
                                     placeholdersValues)} })

stepsFromExamples(s, pt, sourceStep, example) ==
    rowsLoop(s, pt, sourceStep, example,
             [k \in 1..Len(example.header) |-> <<"<">> \o example.header[k] \o <<">">>],
             1, <<>>)

\* getOutlineStep, first loop: stepsList[i] for the outline step i, the
\* tables from e on.
RECURSIVE examplesLoop(_, _, _, _, _, _)
examplesLoop(s, pt, outlineStep, examples, e, out) ==
    IF e > Len(examples) THEN [s |-> s, steps |-> out]
    ELSE The({ examplesLoop(r.s, pt, outlineStep, examples, e + 1, out \o r.steps)
               : r \in {stepsFromExamples(s, pt, outlineStep, examples[e])} })

RECURSIVE stepsListLoop(_, _, _, _, _, _)
stepsListLoop(s, pt, outlineSteps, examples, i, stepsList) ==
    IF i > Len(outlineSteps) THEN [s |-> s, stepsList |-> stepsList]
    ELSE The({ stepsListLoop(r.s, pt, outlineSteps, examples, i + 1,
                             Append(stepsList, r.steps))
               : r \in {examplesLoop(s, pt, outlineSteps[i], examples, 1, <<>>)} })

\* getOutlineStep, second loop: the values ci takes, table after table.
RECURSIVE rowIndexes(_, _)
rowIndexes(examples, ei) ==
    IF ei > Len(examples) THEN <<>>
    ELSE [k \in 1..Len(examples[ei].body) |-> k] \o rowIndexes(examples, ei + 1)

\* Mutant: the steps are returned outline step after outline step, each with
\* all its rows.
RECURSIVE flatten(_, _)
flatten(lists, i) ==
    IF i > Len(lists) THEN <<>> ELSE lists[i] \o flatten(lists, i + 1)

getOutlineStepByStep(s, pt, outlineSteps, examples) ==
    LET r == stepsListLoop(s, pt, outlineSteps, examples, 1, <<>>)
    IN  [s |-> r.s, panicked |-> FALSE, steps |-> flatten(r.stepsList, 1)]

\* getOutlineStep, second loop: some stepsList[si][ci] is indexed out of range.
outOfRange(stepsList, ci) ==
    \E k \in 1..Len(ci), si \in 1..Len(stepsList) : ci[k] > Len(stepsList[si])

\* getOutlineStep: the suite afterwards, the steps returned, and whether
\* stepsList[si][ci] is indexed out of range (a run-time panic).
getOutlineStep(s, pt, outlineSteps, examples) ==
    The({ [s |-> r.s,
           panicked |-> outOfRange(r.stepsList, ci),
           steps |-> IF outOfRange(r.stepsList, ci) \/ Len(outlineSteps) = 0 THEN <<>>
                     ELSE [j \in 1..(Len(ci) * Len(outlineSteps)) |->
                              r.stepsList[((j - 1) % Len(outlineSteps)) + 1]
                                         [ci[((j - 1) \div Len(outlineSteps)) + 1]]]]
          : r \in {stepsListLoop(s, pt, outlineSteps, examples, 1, <<>>)},
            ci \in {rowIndexes(examples, 1)} })

(***************************************************************************)
(* The suite under execution and the documents it is run on.               *)
(***************************************************************************)
TGo == <<"g", "o">>             \* a step text with a definition
TNum == <<"n", "5">>            \* a step text whose definition captures one argument
TUnknown == <<"z", "z">>        \* a step text no definition matches
StepTexts == {TGo, TNum, TUnknown}

\* The registered definitions: f is the handler, numIn its number of
\* parameters (reflect's NumIn).  The handler bound to the capturing pattern
\* declares no parameter for the capture.
SuiteSteps ==
    << [expr |-> <<"g", "o">>, f |-> [name |-> "stepGo", numIn |-> 2]],
       [expr |-> <<"n", Digit>>, f |-> [name |-> "stepNum", numIn |-> 2]] >>

\* The ways a handler that is called can end.
Endings == {"return", "error", "failnow", "skip", "panic"}

HookList == [k \in 1..NumHooks |-> k]

SuiteOptions ==
    { [ignoreTags |-> <<"@wip">>, tags |-> allow,
       beforeScenario |-> HookList, afterScenario |-> HookList,
       beforeStep |-> HookList, afterStep |-> HookList] :
      allow \in {<<>>, <<"@smoke">>} }

FeatureTagLists == {<<>>, <<"@wip">>}
ScenarioTagLists == {<<>>, <<"@wip">>, <<"@smoke">>}

SeqsUpTo(S, n) == UNION {[1..k -> S] : k \in 0..n}

\* The steps of a document node: texts at consecutive source lines.
MkSteps(texts, base) == [i \in 1..Len(texts) |-> [text |-> texts[i], line |-> base + i]]

Backgrounds == {MkSteps(ts, 0) : ts \in SeqsUpTo(StepTexts, MaxBkgSteps)}

Scenarios(child) ==
    { [id |-> child, tags |-> tg, steps |-> MkSteps(ts, 10 * child), examples |-> <<>>] :
      tg \in ScenarioTagLists, ts \in SeqsUpTo(StepTexts, MaxSteps) }

(***************************************************************************)
(* Outcome records (package cucumber).                                     *)
(***************************************************************************)
\* Scenario.AddStep over the steps of the scenario, from k on.
RECURSIVE addSteps(_, _, _)
addSteps(gherkinSteps, stepstatus, k) ==
    IF k > Len(gherkinSteps) THEN <<>>
    ELSE <<[name |-> gherkinSteps[k].text, line |-> gherkinSteps[k].line,
            status |-> stepstatus]>> \o addSteps(gherkinSteps, stepstatus, k + 1)

\* cucumber.FormatScenario: the record of a scenario, without steps.
FormatScenario(gherkinScenario) ==
    [id |-> gherkinScenario.id, tags |-> gherkinScenario.tags, steps |-> <<>>]

\* Mutant: the steps are recorded without the status handed in.
FormatScenarioWithStepsNoStatus(gherkinScenario, stepstatus) ==
    [id |-> gherkinScenario.id, tags |-> gherkinScenario.tags,
     steps |-> addSteps(gherkinScenario.steps, "", 1)]

\* cucumber.FormatScenarioWithSteps
FormatScenarioWithSteps(gherkinScenario, stepstatus) ==
    [id |-> gherkinScenario.id, tags |-> gherkinScenario.tags,
     steps |-> addSteps(gherkinScenario.steps, stepstatus, 1)]

\* generateFormattedStep
generateFormattedStep(step, isfailed, isskipped) ==
    LET status == IF isskipped THEN "skipped"
                  ELSE IF isfailed THEN "failed" ELSE "passed"
    IN  [name |-> step.text, line |-> step.line, status |-> status]

\* The zero cucumber.Step.
ZeroStep == [name |-> <<>>, line |-> 0, status |-> ""]

(***************************************************************************)
(* Hooks and handlers.  An event of the history records one invocation.    *)
(***************************************************************************)
Ev(ev, child, line, hook, def, how) ==
    [ev |-> ev, child |-> child, line |-> line, hook |-> hook, def |-> def, how |-> how]

callBeforeScenarios(opts, child) ==
    [k \in 1..Len(opts.beforeScenario) |->
        Ev("beforeScenario", child, 0, opts.beforeScenario[k], 0, "")]

callAfterScenarios(opts, child) ==
    [k \in 1..Len(opts.afterScenario) |->
        Ev("afterScenario", child, 0, opts.afterScenario[k], 0, "")]

callBeforeSteps(opts, child, line) ==
    [k \in 1..Len(opts.beforeStep) |->
        Ev("beforeStep", child, line, opts.beforeStep[k], 0, "")]

callAfterSteps(opts, child, line) ==
    [k \in 1..Len(opts.afterStep) |->
        Ev("afterStep", child, line, opts.afterStep[k], 0, "")]

\* Mutant: a panic of the handler is not recovered.
stepDefRunNoRecover(f, nparams, how) ==
    IF nparams + 2 # f.numIn
    THEN [invoked |-> FALSE, failed |-> TRUE, skipped |-> FALSE, goexit |-> TRUE,
          panicked |-> FALSE]
    ELSE [invoked |-> TRUE,
          failed |-> how \in {"error", "failnow"},
          skipped |-> how = "skip",
          goexit |-> how \in {"failnow", "skip"},
          panicked |-> how = "panic"]

\* stepDef.run on the step's sub-unit t: whether the handler was called, what
\* t.Failed() and t.Skipped() are afterwards, whether the goroutine is being
\* unwound by runtime.Goexit (Fatalf, FailNow, SkipNow) and whether a panic
\* leaves the function.  A panic of the handler is recovered and reported with
\* t.Errorf (panic values are not nil).
stepDefRun(f, nparams, how) ==
    IF nparams + 2 # f.numIn
    THEN [invoked |-> FALSE, failed |-> TRUE, skipped |-> FALSE, goexit |-> TRUE,
          panicked |-> FALSE]
    ELSE [invoked |-> TRUE,
          failed |-> how \in {"error", "failnow", "panic"},
          skipped |-> how = "skip",
          goexit |-> how \in {"failnow", "skip"},
          panicked |-> FALSE]

\* Mutant: the after-step hooks are called at the end of the function instead
\* of being deferred.
stepClosureNoDefer(opts, child, step, def, f, nparams, how) ==
    LET r == stepDefRun(f, nparams, how)
        completed == ~r.goexit /\ ~r.panicked
    IN  [events |-> callBeforeSteps(opts, child, step.line)
                    \o (IF r.invoked THEN <<Ev("handler", child, step.line, 0, def, how)>>
                        ELSE <<Ev("mismatch", child, step.line, 0, def, "")>>)
                    \o (IF completed THEN callAfterSteps(opts, child, step.line) ELSE <<>>),
         tFailed |-> r.failed,
         failed |-> completed /\ r.failed,
         skipped |-> completed /\ r.skipped,
         panicked |-> r.panicked]

\* The function runStep hands to t.Run for the step: the before-step hooks,
\* def.run, the deferred after-step hooks.  failed and skipped are runStep's
\* variables of these names: they are assigned after def.run has returned,
\* which it does not when the goroutine is unwound.
stepClosure(opts, child, step, def, f, nparams, how) ==
    LET r == stepDefRun(f, nparams, how)
        completed == ~r.goexit /\ ~r.panicked
    IN  [events |-> callBeforeSteps(opts, child, step.line)
                    \o (IF r.invoked THEN <<Ev("handler", child, step.line, 0, def, how)>>
                        ELSE <<Ev("mismatch", child, step.line, 0, def, "")>>)
                    \o callAfterSteps(opts, child, step.line),
         tFailed |-> r.failed,
         failed |-> completed /\ r.failed,
         skipped |-> completed /\ r.skipped,
         panicked |-> r.panicked]

\* Mutant: the before-step hooks run before the definition is looked up.
notFoundAfterHooks(opts, child, line) ==
    callBeforeSteps(opts, child, line) \o <<Ev("notfound", child, line, 0, 0, "")>>

\* runStep up to t.Fatalf when findStepDef returns the error: what has been
\* invoked for the step by then.  The definition is looked up before the
\* step's sub-unit is started, in which the step hooks are called.
notFoundEvents(opts, child, line) ==
    <<Ev("notfound", child, line, 0, 0, "")>>

\* Mutant: the missing definition is reported with t.Errorf, which returns.
stepNotFoundErrorf == [failed |-> TRUE, goexit |-> FALSE]

\* runStep when findStepDef returns the error: t.Fatalf on the scenario's
\* sub-unit marks it failed and unwinds its goroutine.
stepNotFound == [failed |-> TRUE, goexit |-> TRUE]

\* Mutant: the after-scenario hooks are called at the end of the function
\* instead of being deferred.
scenarioExitNoDefer(opts, child, unwound) ==
    IF unwound THEN <<>> ELSE callAfterScenarios(opts, child)

\* What runs when the function runScenario hands to t.Run is left, by return
\* or by unwinding: the deferred callAfterScenarios.
scenarioExit(opts, child, unwound) == callAfterScenarios(opts, child)

(***************************************************************************)
(* The run of one feature.                                                 *)
(***************************************************************************)
NoProbe == [op |-> "none", text |-> <<>>, tags |-> <<>>, def |-> 0, err |-> FALSE,
            skip |-> FALSE, f |-> [name |-> "", numIn |-> 0], params |-> <<>>,
            invoked |-> FALSE, failed |-> FALSE, in |-> <<>>]

\* The execution context: a mapping from keys to values.
NewContext == <<>>

\* Context.Set
Set(m, key, value) ==
    [x \in (DOMAIN m) \cup {key} |-> IF x = key THEN value ELSE m[x]]

\* Context.Clone: an independent copy holding the same entries.
Clone(m) == [x \in DOMAIN m |-> m[x]]

\* Mutant: the scenario's own steps start from an empty context.
scenarioContextFresh(m) == NewContext

\* runScenario, c := ctx.Clone(): the context the scenario's own steps run on.
scenarioContext(m) == Clone(m)

\* What a handler that is called does with the context it is handed: it
\* sets the key named after its step.
handlerSets(m, step) == Set(m, step.text, "set")

\* The key of the context under which the current reporting handle is kept,
\* and the handle of the sub-unit of a scenario.
TestingTKey == <<"TestingTKey">>
scenarioT(child) == [unit |-> "scenario", child |-> child]

\* The function runStep hands to t.Run sets the step's handle under the key
\* and defers ctx.Set(TestingTKey{}, nil): the context once it is left.
stepUnitLeft(m) == Set(m, TestingTKey, [unit |-> "nil", child |-> 0])

\* runScenario from `steps := scenario.Steps` on: the steps runSteps is called
\* with, which for an outline are those of getOutlineStep.
scenarioSteps(s, pt, sc) ==
    IF Len(sc.examples) > 0 THEN getOutlineStep(s, pt, sc.steps, sc.examples)
    ELSE [s |-> s, panicked |-> FALSE, steps |-> sc.steps]

\* The state before Run is called: nothing has been executed.
NotRunning ==
    /\ nChildren = 0
    /\ bkgSteps = NilBackground
    /\ report = <<>>
    /\ featFailed = FALSE
    /\ scenario = NoScenario
    /\ phase = "idle"
    /\ idx = 0
    /\ acc = <<>>
    /\ scenFailed = FALSE
    /\ events = <<>>
    /\ executed = {}
    /\ probe = NoProbe
    /\ ctx = NewContext
    /\ c = NewContext
    /\ todo = <<>>
    /\ observed = <<>>
    /\ nextFile = 0
    /\ features = <<>>

Init ==
    /\ steps = SuiteSteps
    /\ options \in SuiteOptions
    /\ parameterTypes = BuiltinParameterTypes
    /\ hasStepErrors = FALSE
    /\ suiteFailed = FALSE
    /\ files = <<>>
    /\ pc = "start"
    /\ NotRunning

\* runFeature up to its loop: a feature carrying an ignored tag is only
\* formatted, any other gets an empty report and is run.
RunFeature ==
    /\ pc = "start"
    /\ \E featureTags \in FeatureTagLists :
          pc' = IF firstIn(featureTags, options.ignoreTags, 1) # 0
                THEN "ignored" ELSE "children"
    /\ UNCHANGED <<steps, options, nChildren, bkgSteps, report, featFailed, scenario,
                   phase, idx, acc, scenFailed, events, executed, probe>>
    /\ UNCHANGED <<parameterTypes, hasStepErrors, suiteFailed, ctx, c, todo, observed,
                   runVars>>

\* FormatFeatureWithScenario, one child of the ignored feature: the scenario
\* of the child is formatted with the status "".
FormatIgnoredScenario ==
    /\ pc = "ignored"
    /\ nChildren < MaxChildren
    /\ \E sc \in Scenarios(nChildren + 1) :
          report' = Append(report, FormatScenarioWithSteps(sc, ""))
    /\ nChildren' = nChildren + 1
    /\ UNCHANGED <<steps, options, pc, bkgSteps, featFailed, scenario, phase, idx,
                   acc, scenFailed, events, executed, probe>>
    /\ UNCHANGED <<parameterTypes, hasStepErrors, suiteFailed, ctx, c, todo, observed,
                   runVars>>

\* FormatFeatureWithScenario on a Background child: child.GetScenario() is nil
\* and FormatScenarioWithSteps reads its Steps field, a nil dereference on the
\* goroutine that called Run.
FormatIgnoredBackground ==
    /\ pc = "ignored"
    /\ nChildren = 0
    /\ \E bkg \in Backgrounds : pc' = "crashed"
    /\ UNCHANGED <<steps, options, nChildren, bkgSteps, report, featFailed, scenario,
                   phase, idx, acc, scenFailed, events, executed, probe>>
    /\ UNCHANGED <<parameterTypes, hasStepErrors, suiteFailed, ctx, c, todo, observed,
                   runVars>>

\* FormatFeatureWithScenario returns: the ignored feature has no more children.
FormatIgnoredDone ==
    /\ pc = "ignored"
    /\ pc' = "done"
    /\ UNCHANGED <<steps, options, nChildren, bkgSteps, report, featFailed, scenario,
                   phase, idx, acc, scenFailed, events, executed, probe>>
    /\ UNCHANGED <<parameterTypes, hasStepErrors, suiteFailed, ctx, c, todo, observed,
                   runVars>>

\* The loop of runFeature on a Background child (the first child of a feature
\* that has one): its steps are kept for the scenarios that follow.
ChildBackground ==
    /\ pc = "children"
    /\ nChildren = 0
    /\ \E bkg \in Backgrounds : bkgSteps' = [isNil |-> FALSE, steps |-> bkg]
    /\ nChildren' = nChildren + 1
    /\ UNCHANGED <<steps, options, pc, report, featFailed, scenario, phase, idx, acc,
                   scenFailed, events, executed, probe>>
    /\ UNCHANGED <<parameterTypes, hasStepErrors, suiteFailed, ctx, c, todo, observed,
                   runVars>>

\* The loop of runFeature on a scenario the skip rule applies to.
SkipScenario ==
    /\ pc = "children"
    /\ nChildren < MaxChildren
    /\ \E sc \in Scenarios(nChildren + 1) :
          /\ skipScenario(options, sc.tags)
          /\ scenario' = sc
          /\ report' = Append(report, FormatScenarioWithSteps(sc, "skipped"))
    /\ nChildren' = nChildren + 1
    /\ events' = <<>>
    /\ observed' = <<>>
    /\ UNCHANGED <<steps, options, pc, bkgSteps, featFailed, phase, idx, acc,
                   scenFailed, executed, probe>>
    /\ UNCHANGED <<parameterTypes, hasStepErrors, suiteFailed, ctx, c, todo, runVars>>

\* runScenario after the background steps: the context is cloned, the steps
\* of an outline are expanded (which registers the derived patterns) and
\* runSteps is called on the scenario's steps.  evs is what the history holds
\* so far, failed whether the suite's handle is marked failed by now.  A panic
\* of getOutlineStep is not recovered: the deferred after-scenario hooks run
\* and the process ends.
EnterSteps(sc, context, evs, failed) ==
    \E r \in {scenarioSteps([steps |-> steps, hasStepErrors |-> hasStepErrors,
                               tFailed |-> failed], parameterTypes, sc)} :
        /\ c' = scenarioContext(context)
        /\ steps' = r.s.steps
        /\ hasStepErrors' = r.s.hasStepErrors
        /\ suiteFailed' = r.s.tFailed
        /\ todo' = r.steps
        /\ idx' = 0
        /\ acc' = <<>>
        /\ IF r.panicked
           THEN /\ pc' = "crashed"
                /\ phase' = "unwound"
                /\ events' = evs \o scenarioExit(options, sc.id, TRUE)
           ELSE /\ pc' = "scenario"
                /\ phase' = "steps"
                /\ events' = evs

\* runScenario on the scenario sc: it opens the scenario's sub-unit, calls the
\* before-scenario hooks and turns to the background steps, if there are any,
\* or to the scenario's steps.
runScenarioStart(sc) ==
    /\ scenario' = sc
    /\ scenFailed' = FALSE
    /\ observed' = <<>>
    /\ ctx' = Set(NewContext, TestingTKey, scenarioT(sc.id))
    /\ IF ~bkgSteps.isNil /\ Len(bkgSteps.steps) > 0
       THEN /\ events' = callBeforeScenarios(options, sc.id)
            /\ pc' = "scenario"
            /\ phase' = "bkg"
            /\ todo' = bkgSteps.steps
            /\ idx' = 0
            /\ acc' = <<>>
            /\ c' = NewContext
            /\ UNCHANGED <<steps, hasStepErrors, suiteFailed>>
       ELSE EnterSteps(sc, Set(NewContext, TestingTKey, scenarioT(sc.id)),
                       callBeforeScenarios(options, sc.id), suiteFailed)

\* The loop of runFeature on any other scenario.
StartScenario ==
    /\ pc = "children"
    /\ nChildren < MaxChildren
    /\ \E sc \in Scenarios(nChildren + 1) :
          /\ ~skipScenario(options, sc.tags)
          /\ runScenarioStart(sc)
    /\ UNCHANGED <<options, nChildren, bkgSteps, report, featFailed, executed, probe>>
    /\ UNCHANGED <<parameterTypes, runVars>>

\* The steps runSteps is looping over.
CurrentSteps == todo

\* One iteration of runSteps: runStep on the next step, and AddStepObj of what
\* it returns.  A failure of a sub-unit marks its parents failed.  After the
\* last background step runSteps returns to runScenario, which drops the
\* result and goes on with the scenario's steps.
RunStep ==
    /\ pc = "scenario"
    /\ phase \in {"bkg", "steps"}
    /\ idx < Len(CurrentSteps)
    /\ \E r \in {findStepDef(steps, CurrentSteps[idx + 1].text)} :
       LET step == CurrentSteps[idx + 1]
           child == scenario.id
           inBkg == phase = "bkg"
           lastBkg == inBkg /\ idx + 1 = Len(bkgSteps.steps)
           context == IF inBkg THEN ctx ELSE c
       IN  IF r.err
           THEN LET nf == stepNotFound
                    evs == events \o notFoundEvents(options, child, step.line)
                IN  /\ scenFailed' = (scenFailed \/ nf.failed)
                    /\ featFailed' = (featFailed \/ nf.failed)
                    /\ UNCHANGED <<executed, observed, ctx>>
                    /\ IF nf.goexit
                       THEN /\ events' = evs
                            /\ phase' = "unwound"
                            /\ suiteFailed' = (suiteFailed \/ nf.failed)
                            /\ UNCHANGED <<pc, idx, acc, c, todo, steps, hasStepErrors>>
                       ELSE \* def.expr is nil: FindSubmatch panics, runStep
                            \* recovers and returns the zero Step
                            IF lastBkg
                            THEN EnterSteps(scenario, ctx,
                                            evs \o <<Ev("record", child, 0, 0, 0, "")>>,
                                            suiteFailed \/ nf.failed)
                            ELSE /\ events' = evs \o <<Ev("record", child, 0, 0, 0, "")>>
                                 /\ idx' = idx + 1
                                 /\ acc' = Append(acc, ZeroStep)
                                 /\ suiteFailed' = (suiteFailed \/ nf.failed)
                                 /\ UNCHANGED <<pc, phase, c, todo, steps, hasStepErrors>>
           ELSE \E how \in Endings :
                \E out \in {stepClosure(options, child, step, r.def, steps[r.def].f,
                                        NumSubexp(steps[r.def].expr), how)} :
                LET rec == generateFormattedStep(step, out.failed, out.skipped)
                    invoked == \E e \in {out.events[k] : k \in 1..Len(out.events)} :
                                  e.ev = "handler"
                    after == stepUnitLeft(IF invoked THEN handlerSets(context, step)
                                          ELSE context)
                    evs == events \o out.events
                    recorded == evs \o <<Ev("record", child, step.line, 0, 0, rec.status)>>
                IN  /\ scenFailed' = (scenFailed \/ out.tFailed)
                    /\ featFailed' = (featFailed \/ out.tFailed)
                    /\ executed' = IF invoked
                                   THEN executed \cup {[child |-> child, line |-> step.line]}
                                   ELSE executed
                    /\ observed' = IF invoked
                                   THEN Append(observed,
                                               [child |-> child, text |-> step.text,
                                                line |-> step.line, bkg |-> inBkg,
                                                seen |-> DOMAIN context \ {TestingTKey}])
                                   ELSE observed
                    /\ ctx' = IF inBkg THEN after ELSE ctx
                    /\ IF out.panicked
                       THEN \* the panic ends the process
                            /\ pc' = "crashed"
                            /\ events' = evs
                            /\ c' = IF inBkg THEN c ELSE after
                            /\ suiteFailed' = (suiteFailed \/ out.tFailed)
                            /\ UNCHANGED <<phase, idx, acc, todo, steps, hasStepErrors>>
                       ELSE IF lastBkg
                       THEN EnterSteps(scenario, after, recorded, suiteFailed \/ out.tFailed)
                       ELSE /\ events' = recorded
                            /\ idx' = idx + 1
                            /\ acc' = Append(acc, rec)
                            /\ c' = IF inBkg THEN c ELSE after
                            /\ suiteFailed' = (suiteFailed \/ out.tFailed)
                            /\ UNCHANGED <<pc, phase, todo, steps, hasStepErrors>>
    /\ UNCHANGED <<options, nChildren, bkgSteps, report, scenario, probe>>
    /\ UNCHANGED <<parameterTypes, runVars>>

\* runScenario is left: by return after the last step, formattedscenario then
\* being what runSteps returned, or by the unwinding of the goroutine, with
\* formattedscenario still as FormatScenario made it.  The deferred calls run
\* and runFeature adds the record to the report.
FinishScenario ==
    /\ pc = "scenario"
    /\ \/ phase = "unwound"
       \/ phase = "steps" /\ idx = Len(CurrentSteps)
    /\ LET unwound == phase = "unwound"
           formattedscenario == IF unwound THEN FormatScenario(scenario)
                                ELSE [FormatScenario(scenario) EXCEPT !.steps = acc]
       IN  /\ events' = events \o scenarioExit(options, scenario.id, unwound)
           /\ report' = Append(report, formattedscenario)
    /\ pc' = "children"
    /\ phase' = "idle"
    /\ idx' = 0
    /\ acc' = <<>>
    /\ todo' = <<>>
    /\ ctx' = NewContext
    /\ c' = NewContext
    /\ nChildren' = nChildren + 1
    /\ UNCHANGED <<steps, options, bkgSteps, featFailed, scenario, scenFailed,
                   executed, probe>>
    /\ UNCHANGED <<parameterTypes, hasStepErrors, suiteFailed, observed, runVars>>

\* The loop of runFeature ends: the feature has no more children.
FeatureDone ==
    /\ pc = "children"
    /\ pc' = "done"
    /\ UNCHANGED <<steps, options, nChildren, bkgSteps, report, featFailed, scenario,
                   phase, idx, acc, scenFailed, events, executed, probe>>
    /\ UNCHANGED <<parameterTypes, hasStepErrors, suiteFailed, ctx, c, todo, observed,
                   runVars>>

Next ==
    \/ RunFeature
    \/ FormatIgnoredScenario
    \/ FormatIgnoredBackground
    \/ FormatIgnoredDone
    \/ ChildBackground
    \/ SkipScenario
    \/ StartScenario
    \/ RunStep
    \/ FinishScenario
    \/ FeatureDone

Spec == Init /\ [][Next]_vars

(***************************************************************************)
(* Lookups on a suite, applied to inputs drawn from bounded sets.          *)
(***************************************************************************)
CatchAllPattern == <<"a", " ", Star, " ", "n", "u", "m", "b", "e", "r">>
LiteralPattern == <<"a", " ", "5", " ", "n", "u", "m", "b", "e", "r">>
NumberText == <<"a", " ", "5", " ", "n", "u", "m", "b", "e", "r">>

ProbePatterns ==
    { <<"a">>, <<"a", Star>>, <<Digit>>, <<"a", DigitPlus>>,
      CatchAllPattern, LiteralPattern }

ProbeDefs == {[expr |-> p, f |-> [name |-> "step", numIn |-> 2 + NumSubexp(p)]] :
              p \in ProbePatterns}

ProbeRegistries == SeqsUpTo(ProbeDefs, MaxDefs)

ProbeTexts == SeqsUpTo({"a", "5"}, MaxTextLen) \cup {NumberText}

ProbeTagLists == SeqsUpTo({"@a", "@b"}, MaxTags)

ProbeOptions ==
    { [ignoreTags |-> ig, tags |-> allow,
       beforeScenario |-> <<>>, afterScenario |-> <<>>,
       beforeStep |-> <<>>, afterStep |-> <<>>] :
      ig \in ProbeTagLists, allow \in ProbeTagLists }

Idle ==
    /\ pc = "probe"
    /\ parameterTypes = BuiltinParameterTypes
    /\ hasStepErrors = FALSE
    /\ suiteFailed = FALSE
    /\ files = <<>>
    /\ NotRunning

InitFind ==
    /\ steps \in ProbeRegistries
    /\ options \in {o \in ProbeOptions : o.ignoreTags = <<>> /\ o.tags = <<>>}
    /\ Idle

\* findStepDef applied to a step text.
ProbeFindStepDef ==
    /\ pc = "probe"
    /\ \E text \in ProbeTexts :
          LET r == findStepDef(steps, text)
          IN  probe' = [NoProbe EXCEPT !.op = "findStepDef", !.text = text,
                                       !.def = r.def, !.err = r.err]
    /\ UNCHANGED <<steps, options, pc, nChildren, bkgSteps, report, featFailed,
                   scenario, phase, idx, acc, scenFailed, events, executed>>
    /\ UNCHANGED <<parameterTypes, hasStepErrors, suiteFailed, ctx, c, todo, observed,
                   runVars>>

SpecFind == InitFind /\ [][ProbeFindStepDef]_vars

InitSkip ==
    /\ steps = <<>>
    /\ options \in ProbeOptions
    /\ Idle

\* skipScenario applied to the tags of a scenario.
ProbeSkipScenario ==
    /\ pc = "probe"
    /\ \E tags \in ProbeTagLists :
          probe' = [NoProbe EXCEPT !.op = "skipScenario", !.tags = tags,
                                   !.skip = skipScenario(options, tags)]
    /\ UNCHANGED <<steps, options, pc, nChildren, bkgSteps, report, featFailed,
                   scenario, phase, idx, acc, scenFailed, events, executed>>
    /\ UNCHANGED <<parameterTypes, hasStepErrors, suiteFailed, ctx, c, todo, observed,
                   runVars>>

SpecSkip == InitSkip /\ [][ProbeSkipScenario]_vars

(***************************************************************************)
(* The run of one scenario outline.                                        *)
(***************************************************************************)
MaxOutlineSteps == 2    \* steps of the outline
MaxTables == 2          \* example tables of the outline
MaxRows == 2            \* body rows of the outline, all tables together

\* The step texts of the outlines, with the placeholder p, and the cells.
OutlineStepTexts == {<<"a", "<", "p", ">">>, <<"b", "<", "p", ">">>}
Cells == {<<"1">>, <<"2">>, <<"x">>}

\* The outline of the two-column example: one step, rows [1, 2] and [3, 4].
AddText ==
    <<"a", "d", "d", " ", "<", "a", ">", " ", "a", "n", "d", " ", "<", "b", ">">>
AddPattern ==
    <<"a", "d", "d", " ", Digit, " ", "a", "n", "d", " ", Digit>>
AddOutline ==
    [id |-> 1, tags |-> <<>>, steps |-> MkSteps(<<AddText>>, 10),
     examples |-> << [header |-> << <<"a">>, <<"b">> >>,
                      body |-> << << <<"1">>, <<"2">> >>, << <<"3">>, <<"4">> >> >>] >>]

\* The definitions registered: a digit after a, anything after b, and the
\* pattern of the example.  Each handler takes its captures.
OutlineSuiteSteps ==
    << [expr |-> <<"a", Digit>>, f |-> [name |-> "stepA", numIn |-> 3]],
       [expr |-> <<"b", Star>>, f |-> [name |-> "stepB", numIn |-> 3]],
       [expr |-> AddPattern, f |-> [name |-> "stepAdd", numIn |-> 4]] >>

Tables ==
    {[header |-> << <<"p">> >>, body |-> b] :
        b \in SeqsUpTo({<<cell>> : cell \in Cells}, MaxRows)}

RECURSIVE TotalRows(_, _)
TotalRows(examples, e) ==
    IF e > Len(examples) THEN 0 ELSE Len(examples[e].body) + TotalRows(examples, e + 1)

ExampleLists ==
    {ex \in SeqsUpTo(Tables, MaxTables) : Len(ex) > 0 /\ TotalRows(ex, 1) <= MaxRows}

Outlines ==
    {[id |-> 1, tags |-> <<>>, steps |-> MkSteps(ts, 10), examples |-> ex] :
        ts \in SeqsUpTo(OutlineStepTexts, MaxOutlineSteps), ex \in ExampleLists}
    \cup {AddOutline}

InitOutline ==
    /\ steps = OutlineSuiteSteps
    /\ options \in {o \in SuiteOptions : o.tags = <<>>}
    /\ parameterTypes = BuiltinParameterTypes
    /\ hasStepErrors = FALSE
    /\ suiteFailed = FALSE
    /\ files = <<>>
    /\ pc = "children"
    /\ NotRunning

\* The loop of runFeature on a scenario outline, the first child.
StartOutline ==
    /\ pc = "children"
    /\ nChildren = 0
    /\ \E sc \in Outlines :
          /\ ~skipScenario(options, sc.tags)
          /\ runScenarioStart(sc)
    /\ UNCHANGED <<options, nChildren, bkgSteps, report, featFailed, executed, probe>>
    /\ UNCHANGED <<parameterTypes, runVars>>

NextOutline ==
    \/ StartOutline
    \/ RunStep
    \/ FinishScenario

SpecOutline == InitOutline /\ [][NextOutline]_vars

(***************************************************************************)
(* Registration of steps and Suite.Run over the feature files.  The run of *)
(* one feature is taken here by its outcome only; what happens inside it   *)
(* is the specification Spec above.                                        *)
(***************************************************************************)
MaxFiles == 3           \* feature files found by Run
MaxRegistered == 2      \* a registration is made while fewer definitions exist

\* A parameter type added by the test: the token {n} with two fragments.
NToken ==
    <<"{", "n", "}">>
SuiteParameterTypes ==
    AddParameterTypes(BuiltinParameterTypes, NToken, <<DigitPlusSrc, StarSrc>>)

\* The patterns handed to AddStep: without a token, with one token, with two
\* distinct tokens, one that does not compile, and one that compiles while
\* its expansion does not.
RawPatterns ==
    { <<"c">>,
      <<"c">> \o IntToken,
      <<"c">> \o NToken,
      <<"c">> \o IntToken \o NToken,
      <<"c", ")">>,
      <<"\\">> \o IntToken }

\* The compiled patterns handed to AddRegexStep.
CompiledPatterns == {<<"c", Digit>>}

\* The handlers handed to the registrations: one that validateStepFunc
\* accepts and one that it rejects.
SuiteHandlers == {[name |-> "h", numIn |-> 3], [name |-> "bad", numIn |-> 1]}

\* A feature file: it holds a feature, cannot be opened, cannot be parsed,
\* or parses to a document without a feature.
FileKinds == {"feature", "missing", "unparsable", "empty"}

\* How the run of a feature ends: every scenario passed, some scenario
\* failed, or a panic in it ended the process.
FeatureOutcomes == {"passed", "failed", "crashed"}

\* runFeature, hasErrors := false; nothing assigns to it afterwards.
hasErrors == FALSE

\* runFeature, `if hasErrors { return ..., errors.New(...) }`: whether
\* runFeature returns an error.
runFeatureErr == hasErrors

\* cucumber.Feature{}
EmptyFeature == [ran |-> FALSE, failed |-> FALSE]

\* Suite.executeFeature on a file: the record returned, whether an error is
\* returned, whether s.t.Fatalf unwinds the caller, whether the process ends.
executeFeature(kind, outcome) ==
    IF kind = "missing"
    THEN [feature |-> EmptyFeature, err |-> TRUE, fatal |-> FALSE, crashed |-> FALSE,
          failed |-> FALSE]
    ELSE IF kind = "unparsable"
    THEN [feature |-> EmptyFeature, err |-> FALSE, fatal |-> TRUE, crashed |-> FALSE,
          failed |-> TRUE]
    ELSE IF kind = "empty"
    THEN [feature |-> EmptyFeature, err |-> FALSE, fatal |-> FALSE, crashed |-> FALSE,
          failed |-> FALSE]
    ELSE [feature |-> [ran |-> TRUE, failed |-> outcome = "failed"],
          err |-> runFeatureErr, fatal |-> FALSE, crashed |-> outcome = "crashed",
          failed |-> outcome # "passed"]

\* Mutant: Run goes on with step definitions that were rejected.
runAbortsNever(stepErrors) == FALSE

\* Run, `if s.hasStepErrors { s.t.Fatal(...); return }`
runAborts(stepErrors) == stepErrors

InitSuite ==
    /\ steps = <<>>
    /\ options \in {o \in SuiteOptions : o.tags = <<>>}
    /\ parameterTypes = SuiteParameterTypes
    /\ hasStepErrors = FALSE
    /\ suiteFailed = FALSE
    /\ files = <<>>
    /\ pc = "setup"
    /\ NotRunning

\* The test calls Suite.AddStep.
CallAddStep ==
    /\ pc = "setup"
    /\ Len(steps) < MaxRegistered
    /\ \E expr \in RawPatterns, step \in SuiteHandlers :
       \E order \in KeyOrders(parameterTypes, expr) :
       \E r \in {AddStep([steps |-> steps, hasStepErrors |-> FALSE,
                          tFailed |-> suiteFailed], parameterTypes, expr, step, order)} :
          /\ steps' = r.steps
          /\ hasStepErrors' = (hasStepErrors \/ r.hasStepErrors)
          /\ suiteFailed' = r.tFailed
          /\ probe' = [NoProbe EXCEPT !.op = "AddStep", !.text = expr, !.f = step,
                                      !.err = r.hasStepErrors]
    /\ UNCHANGED <<options, pc, nChildren, bkgSteps, report, featFailed, scenario,
                   phase, idx, acc, scenFailed, events, executed>>
    /\ UNCHANGED <<parameterTypes, ctx, c, todo, observed, runVars>>

\* The test calls Suite.AddRegexStep.
CallAddRegexStep ==
    /\ pc = "setup"
    /\ Len(steps) < MaxRegistered
    /\ \E expr \in CompiledPatterns, step \in SuiteHandlers :
       \E r \in {AddRegexStep([steps |-> steps, hasStepErrors |-> FALSE,
                               tFailed |-> suiteFailed], expr, step)} :
          /\ steps' = r.steps
          /\ hasStepErrors' = (hasStepErrors \/ r.hasStepErrors)
          /\ suiteFailed' = r.tFailed
          /\ probe' = [NoProbe EXCEPT !.op = "AddRegexStep", !.text = expr, !.f = step,
                                      !.err = r.hasStepErrors]
    /\ UNCHANGED <<options, pc, nChildren, bkgSteps, report, featFailed, scenario,
                   phase, idx, acc, scenFailed, events, executed>>
    /\ UNCHANGED <<parameterTypes, ctx, c, todo, observed, runVars>>

\* Suite.Run up to its loop: the check of hasStepErrors, then the files that
\* filepath.Glob finds (or its error).
Run ==
    /\ pc = "setup"
    /\ IF runAborts(hasStepErrors)
       THEN /\ pc' = "aborted"
            /\ suiteFailed' = TRUE
            /\ UNCHANGED <<files, probe>>
       ELSE \/ /\ pc' = "aborted"
               /\ suiteFailed' = TRUE
               /\ UNCHANGED <<files, probe>>
            \/ /\ pc' = "run"
               /\ files' \in SeqsUpTo(FileKinds, MaxFiles)
               /\ probe' = NoProbe
               /\ UNCHANGED suiteFailed
    /\ UNCHANGED <<steps, options, nChildren, bkgSteps, report, featFailed, scenario,
                   phase, idx, acc, scenFailed, events, executed>>
    /\ UNCHANGED <<parameterTypes, hasStepErrors, ctx, c, todo, observed, nextFile,
                   features>>

\* One turn of the loop of Run: executeFeature on the next file, the record
\* appended to features, s.t.Fail() on an error.
ExecuteFeature ==
    /\ pc = "run"
    /\ nextFile < Len(files)
    /\ \E outcome \in FeatureOutcomes :
       \E r \in {executeFeature(files[nextFile + 1], outcome)} :
          /\ suiteFailed' = (suiteFailed \/ r.err \/ r.failed)
          /\ IF r.fatal THEN pc' = "aborted" /\ UNCHANGED <<nextFile, features>>
             ELSE IF r.crashed THEN pc' = "crashed" /\ UNCHANGED <<nextFile, features>>
             ELSE /\ pc' = "run"
                  /\ nextFile' = nextFile + 1
                  /\ features' = Append(features, [ran |-> r.feature.ran,
                                                    failed |-> r.feature.failed,
                                                    err |-> r.err])
    /\ UNCHANGED <<steps, options, nChildren, bkgSteps, report, featFailed, scenario,
                   phase, idx, acc, scenFailed, events, executed, probe>>
    /\ UNCHANGED <<parameterTypes, hasStepErrors, ctx, c, todo, observed, files>>

\* Run returns after the last file.
RunDone ==
    /\ pc = "run"
    /\ nextFile = Len(files)
    /\ pc' = "finished"
    /\ UNCHANGED <<steps, options, nChildren, bkgSteps, report, featFailed, scenario,
                   phase, idx, acc, scenFailed, events, executed, probe>>
    /\ UNCHANGED <<parameterTypes, hasStepErrors, suiteFailed, ctx, c, todo, observed,
                   runVars>>

NextSuite ==
    \/ CallAddStep
    \/ CallAddRegexStep
    \/ Run
    \/ ExecuteFeature
    \/ RunDone

SpecSuite == InitSuite /\ [][NextSuite]_vars

(***************************************************************************)
(* Captures and their conversion to the arguments of the handler.          *)
(***************************************************************************)
MaxArgLen == 2          \* characters of the text a step carries as its argument

\* The captures of the preferred match of the tokens p[k..] anchored at
\* offset i of t (which exists): a greedy group ends at the largest offset
\* from which the rest of the pattern matches.
RECURSIVE captures(_, _, _, _)
captures(p, k, t, i) ==
    IF k > Len(p) THEN <<>>
    ELSE IF p[k] \in {Star, DigitPlus}
    THEN LET hi == IF p[k] = Star THEN Len(t) ELSE i + DigitRun(t, i)
             lo == IF p[k] = Star THEN i ELSE i + 1
             ends == {j \in lo..hi : MatchFrom(p, k + 1, t, j) # -1}
             end == CHOOSE j \in ends : \A x \in ends : x <= j
         IN  <<SubSeq(t, i + 1, end)>> \o captures(p, k + 1, t, end)
    ELSE IF p[k] = Digit
    THEN <<SubSeq(t, i + 1, i + 1)>> \o captures(p, k + 1, t, i + 1)
    ELSE captures(p, k + 1, t, i + 1)

\* def.expr.FindSubmatch([]byte(step.Text))[1:], for a text the pattern matches
FindSubmatchParams(p, t) == captures(p, 1, t, doExecute(p, t, 0)[1])

\* Mutant: a text the int cannot hold converts to 0 like a text that is no
\* number.
AtoiZeroOnError(s) ==
    [value |-> IF Atoi(s).err THEN Zero ELSE Atoi(s).value, err |-> Atoi(s).err]

\* strconv.Atoi as paramType calls it.
paramAtoi(s) == Atoi(s)

\* paramType: the argument made of a capture for a parameter of the given
\* kind (the kinds the handlers here declare: int, string, and the captured
\* bytes for any other).
paramType(param, inType) ==
    IF inType = "string" THEN [kind |-> "string", value |-> param]
    ELSE IF inType = "int" THEN [kind |-> "int", value |-> paramAtoi(param).value]
    ELSE [kind |-> "bytes", value |-> param]

\* stepDef.run, the loop over params: the arguments after the reporting
\* handle and the context.
stepDefIn(f, params) == [i \in 1..Len(params) |-> paramType(params[i], f.in[i])]

\* The step texts of the round trip and their pattern.
IHave == <<"I", " ", "h", "a", "v", "e", " ">>
Cats == <<" ", "c", "a", "t", "s">>
CatsPattern == IHave \o IntToken \o Cats

\* Handlers whose third parameter is an int, a string.
HInt == [name |-> "hInt", numIn |-> 3, in |-> <<"int">>]
HString == [name |-> "hString", numIn |-> 3, in |-> <<"string">>]

\* The registrations the test makes before the steps are run.
CoerceSuite ==
    LET s0 == [steps |-> <<>>, hasStepErrors |-> FALSE, tFailed |-> FALSE]
        s1 == AddStep(s0, BuiltinParameterTypes, CatsPattern, HInt,
                      CHOOSE o \in KeyOrders(BuiltinParameterTypes, CatsPattern) : TRUE)
        s2 == AddRegexStep(s1, <<"n", "=", DigitPlus>>, HInt)
        s3 == AddRegexStep(s2, <<"x", "=", Star>>, HInt)
    IN  AddRegexStep(s3, <<"t", "=", Star>>, HString)

\* The texts the steps carry where the pattern has its token or group.
ArgChars == {"0", "1", "9", "-", "a"}
Digits19 ==
    <<"9", "2", "2", "3", "3", "7", "2", "0", "3", "6", "8", "5", "4", "7", "7", "5", "8", "0">>
LimitTexts ==
    { Digits19 \o <<"7">>, Digits19 \o <<"8">>, <<"-">> \o Digits19 \o <<"8">>,
      <<"-">> \o Digits19 \o <<"9">> }
ArgTexts == SeqsUpTo(ArgChars, MaxArgLen) \cup LimitTexts

CoerceTexts ==
    {IHave \o a \o Cats : a \in ArgTexts}
      \cup {<<h, "=">> \o a : h \in {"n", "x", "t"}, a \in ArgTexts}

InitCoerce ==
    /\ steps = CoerceSuite.steps
    /\ options \in {o \in ProbeOptions : o.ignoreTags = <<>> /\ o.tags = <<>>}
    /\ Idle

\* runStep on a step text, for a handler that returns normally: the
\* definition found, the captures, and the call stepDef.run makes.
ProbeRunStep ==
    /\ pc = "probe"
    /\ \E text \in CoerceTexts :
       \E r \in {findStepDef(steps, text)} :
          IF r.err
          THEN probe' = [NoProbe EXCEPT !.op = "runStep", !.text = text, !.err = TRUE,
                                        !.failed = TRUE]
          ELSE \E params \in {FindSubmatchParams(steps[r.def].expr, text)} :
               \E out \in {stepDefRun(steps[r.def].f, Len(params), "return")} :
                  probe' = [NoProbe EXCEPT !.op = "runStep", !.text = text,
                                !.def = r.def, !.f = steps[r.def].f,
                                !.params = params,
                                !.invoked = out.invoked, !.failed = out.failed,
                                !.in = IF out.invoked
                                       THEN stepDefIn(steps[r.def].f, params)
                                       ELSE <<>>]
    /\ UNCHANGED <<steps, options, pc, nChildren, bkgSteps, report, featFailed,
                   scenario, phase, idx, acc, scenFailed, events, executed>>
    /\ UNCHANGED <<parameterTypes, hasStepErrors, suiteFailed, ctx, c, todo, observed,
                   runVars>>

SpecCoerce == InitCoerce /\ [][ProbeRunStep]_vars

(***************************************************************************)
(* Properties.                                                             *)
(***************************************************************************)
Range(seq) == {seq[k] : k \in 1..Len(seq)}

\* The registered definitions (their indices) whose pattern matches the text.
Matching(reg, text) == {k \in 1..Len(reg) : MatchString(reg[k].expr, text)}

\* C1: findStepDef returns a definition whose pattern matches the text and
\* whose number of non-overlapping matches against the text is the greatest
\* among the registered patterns that match, and it returns the not-found
\* error exactly when no registered pattern matches the text.
C1_ResolveGreatestCount ==
    probe.op = "findStepDef" =>
        LET m == Matching(steps, probe.text)
        IN  /\ probe.err <=> m = {}
            /\ ~probe.err =>
                  /\ probe.def \in m
                  /\ \A k \in m : FindAllCount(steps[probe.def].expr, probe.text)
                                     >= FindAllCount(steps[k].expr, probe.text)

\* A lookup in which a definition registered later wins with a greater count.
C1_Witness ==
    /\ probe.op = "findStepDef"
    /\ ~probe.err
    /\ \E k \in Matching(steps, probe.text) :
          /\ k < probe.def
          /\ FindAllCount(steps[k].expr, probe.text)
                < FindAllCount(steps[probe.def].expr, probe.text)

\* The lookup of the text "a 5 number" with the catch-all pattern registered
\* first and the literal pattern second.
NumberLookup ==
    /\ probe.op = "findStepDef"
    /\ probe.text = NumberText
    /\ Len(steps) = 2
    /\ steps[1].expr = CatchAllPattern
    /\ steps[2].expr = LiteralPattern

\* C2, as stated: with "a (.*) number" registered first and "a 5 number"
\* second, resolving the text "a 5 number" returns the second definition.
C2_SpecificWins == NumberLookup => (~probe.err /\ probe.def = 2)

\* C2, amended: both patterns match the text exactly once, so neither count is
\* greater, and the lookup returns the definition registered first; a later
\* definition is selected only with a strictly greater count than every
\* matching definition before it.
C2_FirstWinsTie ==
    /\ NumberLookup =>
          /\ FindAllCount(CatchAllPattern, NumberText) = 1
          /\ FindAllCount(LiteralPattern, NumberText) = 1
          /\ ~probe.err
          /\ probe.def = 1
    /\ (probe.op = "findStepDef" /\ ~probe.err) =>
          \A k \in Matching(steps, probe.text) :
             k < probe.def =>
                FindAllCount(steps[k].expr, probe.text)
                   < FindAllCount(steps[probe.def].expr, probe.text)

C2_Witness == NumberLookup /\ probe.def = 1

SkipRule(opts, tags) ==
    \/ Range(tags) \cap Range(opts.ignoreTags) # {}
    \/ opts.tags # <<>> /\ Range(tags) \cap Range(opts.tags) = {}

\* The events of a step: its hooks, the call of its handler, the refusal to
\* call it for a wrong number of arguments.
StepEvs == {"beforeStep", "afterStep", "handler", "mismatch"}

\* The background steps followed by the scenario's own steps.
AllSteps == (IF bkgSteps.isNil THEN <<>> ELSE bkgSteps.steps) \o scenario.steps

\* The positions of the history holding an event of this kind for the step at
\* this line.
At(ev, line) == {j \in 1..Len(events) : events[j].ev = ev /\ events[j].line = line}

\* C3, as stated: for every step whose definition resolves, the status of its
\* outcome record is failed whenever the handler signaled a failure (an error,
\* a fail-now, a caught panic), skipped whenever it requested skip, and passed
\* only when it finished without signaling failure or skip.
C3_StatusFollowsHandler ==
    \A i \in 1..Len(events) :
        events[i].ev = "handler" =>
            \A j \in At("record", events[i].line) :
                /\ events[i].how \in {"error", "failnow", "panic"}
                      => events[j].how = "failed"
                /\ events[i].how = "skip" => events[j].how = "skipped"
                /\ events[j].how = "passed" => events[i].how = "return"

\* The records of the report for the step at this line of this scenario.
ReportRecords(child, line) ==
    { <<i, j>> \in (1..Len(report)) \X (1..(MaxSteps + MaxBkgSteps)) :
        /\ report[i].id = child
        /\ j <= Len(report[i].steps)
        /\ report[i].steps[j].line = line }

\* C4, as stated: after a feature has been run, every step whose handler was
\* invoked has exactly one outcome record in the report of the feature,
\* background steps and steps run before an unresolvable step included.
C4_ExecutedStepsRecorded ==
    pc = "done" =>
        \A x \in executed : Cardinality(ReportRecords(x.child, x.line)) = 1

\* C5: for every step whose definition resolves, each configured after-step
\* hook is invoked exactly once, after the handler has ended, whatever way it
\* ended (return, failure, fail-now, skip, argument-count mismatch, panic).
C5_AfterStepHooksOnce ==
    \A i \in 1..Len(events) :
        events[i].ev \in {"handler", "mismatch"} =>
            \A h \in Range(options.afterStep) :
                LET hits == {j \in At("afterStep", events[i].line) : events[j].hook = h}
                IN  /\ Cardinality(hits) = 1
                    /\ \A j \in hits : j > i

\* A scenario in which one handler ended by fail-now and another was refused
\* for its argument count, each followed by the after-step hooks.
C5_Witness ==
    /\ options.afterStep # <<>>
    /\ \E i \in 1..Len(events) :
          /\ events[i].ev = "handler" /\ events[i].how = "failnow"
          /\ \E j \in At("afterStep", events[i].line) : j > i
    /\ \E i \in 1..Len(events) :
          /\ events[i].ev = "mismatch"
          /\ \E j \in At("afterStep", events[i].line) : j > i

C7_UnresolvedStopsScenario ==
    \A i \in 1..Len(events) :
        events[i].ev = "notfound" =>
            /\ scenFailed
            /\ \A j \in 1..Len(events) : events[j].ev \in StepEvs => j < i
            /\ \A n, m \in 1..Len(AllSteps) :
                  (AllSteps[n].line = events[i].line /\ m >= n) =>
                     \A j \in 1..Len(events) :
                        events[j].ev \in StepEvs => events[j].line # AllSteps[m].line

\* A scenario that ended on an unresolvable step which had a step before it
\* and a step after it.
C7_Witness ==
    /\ pc = "children"
    /\ \E i \in 1..Len(events) :
          /\ events[i].ev = "notfound"
          /\ \E n \in 2..(Len(AllSteps) - 1) : AllSteps[n].line = events[i].line
          /\ \E j \in 1..Len(events) : events[j].ev = "handler" /\ j < i

\* A scenario that runScenario has been called for, and one it has returned from.
Entered == scenario # NoScenario /\ ~SkipRule(options, scenario.tags)
Returned == Entered /\ pc \in {"children", "done"}

\* The positions of the history holding an event of a step.
StepActivity ==
    {j \in 1..Len(events) : events[j].ev \in StepEvs \cup {"notfound", "record"}}

\* C8: for every scenario that is not skipped, each before-scenario hook is
\* invoked exactly once, before any background or scenario step, and each
\* after-scenario hook exactly once, after the last step activity of the
\* scenario, also when a handler failed or a step could not be resolved.
C8_ScenarioHooksBracket ==
    Entered =>
        /\ \A h \in Range(options.beforeScenario) :
              LET hits == {j \in At("beforeScenario", 0) : events[j].hook = h}
              IN  /\ Cardinality(hits) = 1
                  /\ \A j \in hits : \A a \in StepActivity : j < a
        /\ \A h \in Range(options.afterScenario) :
              LET hits == {j \in At("afterScenario", 0) : events[j].hook = h}
              IN  IF Returned
                  THEN /\ Cardinality(hits) = 1
                       /\ \A j \in hits : \A a \in StepActivity : j > a
                  ELSE hits = {}

\* A scenario that has returned after a handler failed and a later step could
\* not be resolved.
C8_Witness ==
    /\ Returned
    /\ options.beforeScenario # <<>> /\ options.afterScenario # <<>>
    /\ \E i, j \in 1..Len(events) :
          /\ i < j
          /\ events[i].ev = "handler" /\ events[i].how = "error"
          /\ events[j].ev = "notfound"

\* A scenario the skip rule applies to.
Skipped == scenario # NoScenario /\ SkipRule(options, scenario.tags)

\* C10: a scenario the skip rule applies to causes no handler invocation, no
\* before- or after-step hook invocation and no before- or after-scenario
\* hook invocation, and the report holds one record for it, in which every
\* one of its steps has the status skipped.
C10_SkippedScenarioRecorded ==
    Skipped =>
        /\ events = <<>>
        /\ pc # "scenario"
        /\ \A x \in executed : x.child # scenario.id
        /\ LET recs == {i \in 1..Len(report) : report[i].id = scenario.id}
           IN  /\ Cardinality(recs) = 1
               /\ \A i \in recs :
                     /\ Len(report[i].steps) = Len(scenario.steps)
                     /\ \A k \in 1..Len(scenario.steps) :
                           /\ report[i].steps[k].name = scenario.steps[k].text
                           /\ report[i].steps[k].line = scenario.steps[k].line
                           /\ report[i].steps[k].status = "skipped"

\* A skipped scenario with as many steps as a scenario can have, in a feature
\* that has a background.
C10_Witness ==
    /\ Skipped
    /\ Len(scenario.steps) = MaxSteps
    /\ ~bkgSteps.isNil /\ bkgSteps.steps # <<>>
    /\ Len(report) = 1

\* C11 (as stated): while runFeature handles a feature that carries an ignored
\* tag, no hook and no handler has run and the report holds one record per
\* scenario consumed, every step of which has the status skipped.
C11_IgnoredFeatureSkipped ==
    pc = "ignored" =>
        /\ events = <<>>
        /\ executed = {}
        /\ Len(report) = nChildren
        /\ \A k \in 1..Len(report) :
              \A j \in 1..Len(report[k].steps) : report[k].steps[j].status = "skipped"

\* The placeholders of an example table, and the texts the steps of the
\* outline sc take for the body row r of its table e.
PlaceholdersOf(example) ==
    [k \in 1..Len(example.header) |-> <<"<">> \o example.header[k] \o <<">">>]

RowTexts(sc, e, r) ==
    {stepFromExample(sc.steps[k].text, sc.examples[e].body[r],
                     PlaceholdersOf(sc.examples[e])).text : k \in 1..Len(sc.steps)}

\* The example rows of sc a step of the given text can have been made for.
RowsOf(sc, text) ==
    {er \in UNION {{<<e, r>> : r \in 1..Len(sc.examples[e].body)} :
                     e \in 1..Len(sc.examples)} :
        text \in RowTexts(sc, er[1], er[2])}

\* C12 (as stated): within an outline, the key a handler set while running
\* for one example row is not among the keys a handler running for a different
\* example row finds set.
C12_OutlineRowsIsolated ==
    Len(scenario.examples) > 0 =>
        \A i, j \in 1..Len(observed) :
            (/\ i < j
             /\ RowsOf(scenario, observed[i].text) \cap
                    RowsOf(scenario, observed[j].text) = {})
            => observed[i].text \notin observed[j].seen

\* The steps of the scenario at hand that were run, in the order of their
\* runs: the calls of a handler and the refusals of a call for a wrong number
\* of arguments.
StepRuns == SelectSeq(events, LAMBDA e : e.ev \in {"handler", "mismatch"})

\* C13: once an executed scenario of a feature with a background has come to
\* its own steps, the steps run so far are all the background steps in
\* document order followed by own steps only, and every key a background step
\* set is among the keys each own step finds set.
C13_BackgroundFirst ==
    (pc = "scenario" /\ phase = "steps" /\ ~bkgSteps.isNil) =>
        /\ Len(StepRuns) >= Len(bkgSteps.steps)
        /\ \A k \in 1..Len(StepRuns) :
              IF k <= Len(bkgSteps.steps)
              THEN StepRuns[k].line = bkgSteps.steps[k].line
              ELSE StepRuns[k].line \in {scenario.steps[n].line : n \in 1..Len(scenario.steps)}
        /\ \A i, j \in 1..Len(observed) :
              (observed[i].bkg /\ ~observed[j].bkg)
              => observed[i].text \in observed[j].seen

\* C13 witness: two background steps have run, their handlers called, and an
\* own step of the scenario has run after them and found their keys set.
C13_Witness ==
    /\ pc = "scenario"
    /\ phase = "steps"
    /\ Len(bkgSteps.steps) = 2
    /\ Len(observed) = 3
    /\ observed[1].bkg /\ observed[2].bkg /\ ~observed[3].bkg
    /\ observed[1].line = bkgSteps.steps[1].line
    /\ observed[2].line = bkgSteps.steps[2].line
    /\ observed[3].line = scenario.steps[1].line
    /\ observed[1].seen = {}
    /\ {observed[1].text, observed[2].text} \subseteq observed[3].seen

\* The text the step k of the outline sc is to take for the body row r of its
\* first table, written out independently of the expansion: the texts of the
\* outlines are a letter followed by the placeholder, that of the two-column
\* example is "add <a> and <b>".
ExpectedText(sc, k, r) ==
    LET row == sc.examples[1].body[r]
    IN  IF sc = AddOutline
        THEN <<"a", "d", "d", " ">> \o row[1] \o <<" ", "a", "n", "d", " ">> \o row[2]
        ELSE <<sc.steps[k].text[1]>> \o row[1]

\* Every substituted text of the outline has a definition in the registry the
\* suite was set up with.
AllResolvable(sc) ==
    \A k \in 1..Len(sc.steps), r \in 1..Len(sc.examples[1].body) :
        ~findStepDef(OutlineSuiteSteps, ExpectedText(sc, k, r)).err

\* C14: for an outline with S steps and one example table with R body rows
\* whose substituted texts all have a definition, the steps run are the R*S
\* steps made row after row, within a row in the order of the outline's steps,
\* each with its placeholders replaced by the cells of the row; nothing panics;
\* with R = 0 there is no step and the scenario is not marked failed.
C14_ExpansionRowsTimesSteps ==
    (Len(scenario.examples) = 1 /\ AllResolvable(scenario)) =>
        LET S == Len(scenario.steps)
            R == Len(scenario.examples[1].body)
        IN  /\ pc # "crashed"
            /\ (pc = "scenario" /\ phase = "steps") =>
                  /\ Len(todo) = R * S
                  /\ \A r \in 1..R, k \in 1..S :
                        todo[(r - 1) * S + k] =
                            [text |-> ExpectedText(scenario, k, r),
                             line |-> scenario.steps[k].line]
            /\ R = 0 => (todo = <<>> /\ ~scenFailed /\ observed = <<>>)

\* C14 witness: an outline of two steps and one table of two different rows
\* has been expanded into four steps, and the last of them has been run.
C14_Witness ==
    /\ pc = "scenario"
    /\ phase = "steps"
    /\ Len(scenario.examples) = 1
    /\ Len(scenario.steps) = 2
    /\ scenario.steps[1].text # scenario.steps[2].text
    /\ Len(scenario.examples[1].body) = 2
    /\ scenario.examples[1].body[1] # scenario.examples[1].body[2]
    /\ AllResolvable(scenario)
    /\ Len(todo) = 4
    /\ idx = 4

\* A step of the suite that is a registration which rejects what it is handed.
RejectedRegistration == (CallAddStep \/ CallAddRegexStep) /\ probe'.err

\* Once the suite is marked it stays marked, and Run then aborts before
\* anything is executed.
MarkedSuiteNeverRuns ==
    /\ [][hasStepErrors => hasStepErrors']_vars
    /\ [](hasStepErrors /\ pc # "setup" =>
            /\ pc = "aborted"
            /\ suiteFailed
            /\ nextFile = 0 /\ features = <<>> /\ files = <<>>
            /\ events = <<>> /\ executed = {} /\ report = <<>>)

\* C15 as stated: a registration (AddStep or AddRegexStep) that rejects a
\* handler or a pattern does not abort at registration time and adds no
\* definition, and from then on the suite stays marked as unable to run: a
\* later Run aborts before any feature, scenario, hook or handler is
\* executed, whatever valid registrations followed.
C15_RejectedAddsNoDefinition ==
    /\ [][RejectedRegistration =>
            pc' = "setup" /\ hasStepErrors' /\ steps' = steps]_vars
    /\ MarkedSuiteNeverRuns

\* C15 amended: a registration that rejects a handler or a pattern does not
\* abort at registration time and marks the suite; it adds no definition when
\* the handler or the pattern as written is rejected, and when only an
\* expanded candidate of the pattern fails to compile the candidates before
\* it, the pattern as written first, stay registered.  From then on the suite
\* stays marked: a later Run aborts before any feature, scenario, hook or
\* handler is executed, whatever valid registrations followed.
C15_RejectedRegistrationDeferred ==
    /\ [][RejectedRegistration =>
            /\ pc' = "setup"
            /\ hasStepErrors'
            /\ IF \/ ~validateStepFunc(probe'.f)
                  \/ probe'.op = "AddStep" /\ Compile(probe'.text).err
               THEN steps' = steps
               ELSE /\ Len(steps') > Len(steps)
                    /\ SubSeq(steps', 1, Len(steps)) = steps
                    /\ steps'[Len(steps) + 1] =
                          [expr |-> Compile(probe'.text).prog, f |-> probe'.f]]_vars
    /\ MarkedSuiteNeverRuns

\* C15 witness: Run has aborted on a marked suite whose last registration was
\* accepted and which holds the pattern as written of a registration whose
\* expansion was rejected.
C15_Witness ==
    /\ pc = "aborted"
    /\ hasStepErrors
    /\ probe.op = "AddStep" /\ ~probe.err
    /\ \E k \in 1..Len(steps) : steps[k].expr = Compile(<<"\\">> \o IntToken).prog

\* The known tokens that occur in a pattern as written.
TokensIn(pt, expr) == {from \in DOMAIN pt : stringsContains(expr, from)}

\* The ways to treat the tokens of a pattern: each is left as written (0) or
\* substituted by one of its fragments (its index).
Substitutions(pt, expr) ==
    {a \in [TokensIn(pt, expr) -> 0..2] : \A t \in DOMAIN a : a[t] <= Len(pt[t])}

\* The pattern with the tokens substituted as a says.
RECURSIVE Substituted(_, _, _, _)
Substituted(pt, expr, a, left) ==
    IF left = {} THEN expr
    ELSE LET t == CHOOSE x \in left : TRUE
         IN  Substituted(pt,
                         IF a[t] = 0 THEN expr ELSE stringsReplace(expr, t, pt[t][a[t]]),
                         a, left \ {t})

\* C16: the candidate patterns registered for a raw pattern are the original
\* pattern plus every combination of fragment substitutions for the known
\* tokens it contains, all bound to the same handler: one token with k
\* fragments yields exactly k additional candidates, and two distinct known
\* tokens yield a candidate in which both tokens are substituted.
C16_EveryCombinationRegistered ==
    [][CallAddStep /\ ~probe'.err =>
         LET raw == probe'.text
             added == SubSeq(steps', Len(steps) + 1, Len(steps'))
             subs == Substitutions(parameterTypes, raw)
         IN  /\ SubSeq(steps', 1, Len(steps)) = steps
             /\ added[1].expr = Compile(raw).prog
             /\ \A k \in 1..Len(added) : added[k].f = probe'.f
             /\ Len(added) = Cardinality(subs)
             /\ {added[k].expr : k \in 1..Len(added)} =
                  {Compile(Substituted(parameterTypes, raw, a, DOMAIN a)).prog : a \in subs}]_vars

\* A non-negative integer literal: digits, without a leading zero unless it
\* is 0 itself.
IsNatLiteral(a) ==
    /\ Len(a) > 0
    /\ \A k \in 1..Len(a) : IsDigit(a[k])
    /\ (Len(a) > 1 => a[1] # "0")

\* C17: after registering "I have {int} cats" with a handler whose third
\* parameter is an integer, running a step whose text carries a non-negative
\* integer literal n at that position resolves to that handler and delivers
\* the integer n as its third argument.
C17_IntRoundTrip ==
    \A a \in ArgTexts :
        (probe.op = "runStep" /\ probe.text = IHave \o a \o Cats /\ IsNatLiteral(a)) =>
            /\ ~probe.err
            /\ probe.f = HInt
            /\ probe.invoked
            /\ probe.in = <<[kind |-> "int", value |-> [neg |-> FALSE, mag |-> a]]>>

\* An integer literal: an optional sign and at least one digit.
IsIntLiteral(a) ==
    LET ds == IF Len(a) > 0 /\ a[1] \in {"+", "-"} THEN Tail(a) ELSE a
    IN  Len(ds) > 0 /\ \A k \in 1..Len(ds) : IsDigit(ds[k])

\* An integer literal whose value the int cannot hold.
OutOfIntRange(a) ==
    /\ IsIntLiteral(a)
    /\ LET ds == stripZeros(IF a[1] \in {"+", "-"} THEN Tail(a) ELSE a)
       IN  IF a[1] = "-" THEN magLess(MinInt.mag, ds) ELSE magLess(MaxInt.mag, ds)

\* The step that was run resolved to the handler taking an int, and its
\* capture cannot be converted to an int.
UnconvertibleCapture ==
    /\ probe.op = "runStep" /\ ~probe.err /\ probe.f = HInt
    /\ ~IsIntLiteral(probe.params[1]) \/ OutOfIntRange(probe.params[1])

\* C18 as stated: when a capture cannot be converted to the integer kind the
\* handler declares (non-numeric, empty, or out of the integer range), the
\* handler is still invoked and receives 0 for that argument, and the step is
\* not marked failed.
C18_UnconvertibleGivesZero ==
    UnconvertibleCapture =>
        /\ probe.invoked
        /\ ~probe.failed
        /\ probe.in = <<[kind |-> "int", value |-> Zero]>>

\* C18 amended: when a capture cannot be converted to the integer kind the
\* handler declares, the handler is still invoked and the step is not marked
\* failed; the argument is 0 for a capture that is empty or no number, and
\* the limit of the int nearest to it (the largest for a positive literal,
\* the smallest for a negative one) for a literal out of the integer range.
C18_UnconvertibleGivesZeroOrLimit ==
    UnconvertibleCapture =>
        /\ probe.invoked
        /\ ~probe.failed
        /\ probe.in =
             <<[kind |-> "int",
                value |-> IF ~IsIntLiteral(probe.params[1]) THEN Zero
                          ELSE IF probe.params[1][1] = "-" THEN MinInt
                          ELSE MaxInt]>>

\* C18 witness: a handler taking an int was invoked with a capture one above
\* the largest int.
C18_Witness ==
    /\ UnconvertibleCapture
    /\ probe.params = <<Digits19 \o <<"8">> >>
    /\ probe.invoked
    /\ probe.in[1].value = MaxInt

\* C19: running a feature reports an error for that feature whenever at
\* least one of its scenarios was marked failed, and the suite is then
\* signaled as failed.
C19_FailedFeatureReportsError ==
    (pc = "done" /\ featFailed) => (runFeatureErr /\ suiteFailed)

\* C20: when several feature files are discovered and one of them cannot be
\* opened or cannot be parsed, only that file's contribution is lost: once
\* Run is over (and no run of a feature ended the process), every other
\* discovered file, before or after it, has been executed.
C20_OtherFilesStillExecuted ==
    (pc \in {"finished", "aborted"} /\ ~hasStepErrors /\ Len(files) > 0) =>
        \A k \in 1..Len(files) :
            files[k] = "feature" => (k <= Len(features) /\ features[k].ran)

\* C21: a failure that arises inside one scenario (a handler failure, a
\* caught panic, or an unresolvable step, including an unresolvable concrete
\* step produced by expanding an outline row) stays confined to that
\* scenario: the process is never ended from inside a scenario, so that the
\* scenarios and features after it can still be executed.
C21_FailureConfinedToScenario ==
    ~(pc = "crashed" /\ scenario.id # 0)

\* The events of the history at i carry out a step whose definition was
\* found: the handler is called, or refused for its number of parameters.
StepCarriedOut(i) == events[i].ev \in {"handler", "mismatch"}

\* Around the event i of a step stand its before-step hooks and its
\* after-step hooks, each list in the configured order.
HooksAround(i) ==
    /\ i > Len(options.beforeStep)
    /\ \A k \in 1..Len(options.beforeStep) :
          events[i - Len(options.beforeStep) + k - 1] =
              Ev("beforeStep", events[i].child, events[i].line, options.beforeStep[k], 0, "")
    /\ i + Len(options.afterStep) <= Len(events)
    /\ \A k \in 1..Len(options.afterStep) :
          events[i + k] =
              Ev("afterStep", events[i].child, events[i].line, options.afterStep[k], 0, "")

\* C22 as stated: within one step execution the order is before-step hooks,
\* resolution, coercion, handler, after-step hooks; so the before-step hooks
\* of a step have already run when its definition is looked up, also for a
\* step that turns out to be unresolvable.
C22_HooksBeforeResolution ==
    \A i \in 1..Len(events) :
        /\ StepCarriedOut(i) => HooksAround(i)
        /\ events[i].ev = "notfound" =>
              \A k \in 1..Len(options.beforeStep) :
                 \E j \in 1..(i - 1) :
                    events[j] = Ev("beforeStep", events[i].child, events[i].line,
                                   options.beforeStep[k], 0, "")

\* C22 amended: within one step execution the definition is resolved first;
\* then, inside the step's sub-unit, come the before-step hooks, the coercion
\* of the captures, the handler and the after-step hooks.  For a step that
\* turns out to be unresolvable none of its before-step or after-step hooks
\* runs.
C22_ResolutionBeforeHooks ==
    \A i \in 1..Len(events) :
        /\ StepCarriedOut(i) => HooksAround(i)
        /\ events[i].ev = "notfound" =>
              \A j \in 1..Len(events) :
                 ~(/\ events[j].ev \in {"beforeStep", "afterStep"}
                   /\ events[j].child = events[i].child
                   /\ events[j].line = events[i].line)

\* C22 witness: in one scenario a step was carried out with its hooks and a
\* later step had no definition.
C22_Witness ==
    \E i, j \in 1..Len(events) :
        /\ i < j
        /\ events[i].ev = "handler"
        /\ events[j].ev = "notfound"
        /\ Len(options.beforeStep) > 0

\* The deferred after-scenario hooks are next: the steps are done or the
\* scenario's goroutine is unwinding.
AtScenarioExit ==
    /\ pc = "scenario"
    /\ phase = "unwound" \/ (phase = "steps" /\ idx = Len(todo))

\* C23: whenever a before-scenario or after-scenario hook runs, the entry
\* stored under TestingTKey in the context it receives is the reporting
\* handle of that scenario's sub-unit, never nil and never a step's handle,
\* whether or not the feature has background steps.  (The before-scenario
\* hooks have just run when only their events are in the history.)
C23_ScenarioHandleInHooks ==
    /\ (pc = "scenario" /\ idx = 0 /\ events = callBeforeScenarios(options, scenario.id))
          => ctx[TestingTKey] = scenarioT(scenario.id)
    /\ AtScenarioExit => ctx[TestingTKey] = scenarioT(scenario.id)

\* The body rows of the tables of an outline, table after table, each as
\* <<table, row>>.
RECURSIVE RowSeq(_, _)
RowSeq(examples, e) ==
    IF e > Len(examples) THEN <<>>
    ELSE [r \in 1..Len(examples[e].body) |-> <<e, r>>] \o RowSeq(examples, e + 1)

\* The text of step k of the outline for a row of one of its tables (the
\* outlines with several tables have the placeholder p as their last
\* character group).
ExpectedTextOf(sc, k, er) ==
    IF sc = AddOutline THEN ExpectedText(sc, k, er[2])
    ELSE <<sc.steps[k].text[1]>> \o sc.examples[er[1]].body[er[2]][1]

\* C24: for an outline with several Examples tables (all of whose substituted
\* texts have a definition), the expanded step sequence contains, for every
\* table in order and every body row of that table in order, the outline's
\* steps substituted with the cell values of that very row; no row's steps
\* are duplicated and none are missing.
C24_EveryRowOfEveryTable ==
    LET rows == RowSeq(scenario.examples, 1)
        S == Len(scenario.steps)
    IN  (/\ pc = "scenario" /\ phase = "steps"
         /\ Len(scenario.examples) > 1
         /\ \A k \in 1..S, n \in 1..Len(rows) :
               ~findStepDef(OutlineSuiteSteps, ExpectedTextOf(scenario, k, rows[n])).err)
        => /\ Len(todo) = Len(rows) * S
           /\ \A n \in 1..Len(rows), k \in 1..S :
                 todo[(n - 1) * S + k] =
                     [text |-> ExpectedTextOf(scenario, k, rows[n]),
                      line |-> scenario.steps[k].line]


MaxLaterLen == 4        \* characters of a step text resolved after the expansion

\* The step texts a scenario may hold after the outline was expanded.
LaterTexts == SeqsUpTo({"a", "b", "1", "x"}, MaxLaterLen)

\* C25, first part: the definitions an outline registers while it is expanded
\* only add to the registry; the definitions that were there come first and
\* are unaltered.
C25_RegistryOnlyGrows ==
    /\ Len(steps) >= Len(OutlineSuiteSteps)
    /\ SubSeq(steps, 1, Len(OutlineSuiteSteps)) = OutlineSuiteSteps

\* C25: the derived definitions an outline registers while it is expanded do
\* not change which definition a step text that was resolvable before the
\* expansion resolves to.
C25_ResolutionUnchanged ==
    [][steps' # steps =>
          \A t \in LaterTexts :
              ~findStepDef(steps, t).err =>
                  findStepDef(steps', t).def = findStepDef(steps, t).def]_vars

====
